---- MODULE Spec2Model ----
(***************************************************************************)
(* Model of the namespaced plan storage engine (src/src/storage.ts).       *)
(*                                                                         *)
(* The file system is a set of directories and a map from file paths to    *)
(* contents; a path is a sequence of segments.  Every storage method is    *)
(* one action.  A filesystem call can fail: each action draws the set of   *)
(* calls that fail from the fault points it passes, within a fault budget. *)
(***************************************************************************)
EXTENDS Integers, Sequences, FiniteSets, TLC

\* ------------------------------------------------------------------ bounds
\* Date.now() runs from 1 to MaxClock.
MaxClock == 2
\* addTodo is offered while the plan has fewer than MaxTodos todos.
MaxTodos == 3
\* Filesystem calls that fail during one run (Spec); SpecReliable has none.
MaxFaults == 2
\* Calls of createNewPlan, createGoal, createPlan, addTodo, removeTodo and
\* updateTodoStatus that change the record or the disk during one run.
MaxMutations == 2
\* Reloads by setWorkingDirectory and setActivePlan during one run.
MaxSwitches == 2
\* The same two budgets for a run on a disk whose calls may fail.
MaxFaultyMutations == 1
MaxFaultySwitches == 1
\* The same two budgets for a run in which calls overlap.
MaxOverlapMutations == 1
MaxOverlapSwitches == 1

VARIABLES
  fs,                       \* the disk: [dirs, files]
  data,                     \* Storage.data
  currentWorkingDirectory,  \* Storage.currentWorkingDirectory
  currentPlan,              \* Storage.currentPlan
  baseStorageDir,           \* Storage.baseStorageDir
  cursorDir,                \* Storage.cursorDir
  storagePath,              \* Storage.storagePath
  planPath,                 \* Storage.planPath
  tasksPath,                \* Storage.tasksPath
  now,                      \* the clock read by Date.now() / new Date()
  phase,                    \* "constructed", "running" or "stopped"
  faultsLeft,               \* filesystem faults the environment may still inject
  mutationsLeft,            \* mutating calls the run may still make
  switchesLeft,             \* reloads the run may still make
  last,                     \* the last operation: [op, arg, err, reload, result]
  mig,                      \* the legacy migration check of the last initialize():
                            \* [ran, ok, again, wd, plan, pre, post]
  migrated,                 \* working directories whose migration has succeeded
  snap,                     \* the namespace the last switch left, and its record in memory
  snapBefore,               \* the same for the switch before the last
  currentGoal               \* SoftwarePlanningServer.currentGoal: <<>> for null, or <<goal>>

vars == <<fs, data, currentWorkingDirectory, currentPlan, baseStorageDir,
          cursorDir, storagePath, planPath, tasksPath, now, phase,
          faultsLeft, mutationsLeft, switchesLeft, last, mig, migrated, snap, snapBefore,
          currentGoal>>

\* ------------------------------------------------------------ plan names
Lower == {"a","b","c","d","e","f","g","h","i","j","k","l","m",
          "n","o","p","q","r","s","t","u","v","w","x","y","z"}
Upper == {"A","B","C","D","E","F","G","H","I","J","K","L","M",
          "N","O","P","Q","R","S","T","U","V","W","X","Y","Z"}
Digit == {"0","1","2","3","4","5","6","7","8","9"}

\* The characters of every string the model passes as a plan name.  "a%00b"
\* stands for the three characters a, NUL, b.
Chars ==
  ("main" :> <<"m","a","i","n">>) @@
  ("feat" :> <<"f","e","a","t">>) @@
  ("v1-backup" :> <<"v","1","-","b","a","c","k","u","p">>) @@
  ("" :> <<>>) @@
  (".." :> <<".",".">>) @@
  ("a/b" :> <<"a","/","b">>) @@
  ("-x" :> <<"-","x">>) @@
  ("a\\b" :> <<"a","\\","b">>) @@
  ("a%00b" :> <<"a","NUL","b">>) @@
  ("a" :> <<"a">>) @@
  ("b" :> <<"b">>)

\* Plan names a caller passes to createNewPlan and setActivePlan.
PlanNameInputs == {"main", "feat", "v1-backup", "", "..", "a/b", "-x", "a\\b", "a%00b"}

\* /^[a-zA-Z0-9][a-zA-Z0-9\-_]*$/.test(planName)
validPlanRegex(planName) ==
  LET c == Chars[planName]
  IN  /\ Len(c) >= 1
      /\ c[1] \in Lower \cup Upper \cup Digit
      /\ \A i \in 2..Len(c) : c[i] \in Lower \cup Upper \cup Digit \cup {"-", "_"}

\* planName.includes(sub), sub given by its characters
includes(planName, sub) ==
  LET c == Chars[planName]
  IN  \E i \in 1..(Len(c) - Len(sub) + 1) : SubSeq(c, i, i + Len(sub) - 1) = sub

\* A plausible slip: the name is handed back as it came.
sanitizePlanName_passthrough(planName) == planName

sanitizePlanName(planName) ==
  IF planName = "" \/ ~validPlanRegex(planName)
  THEN "main"
  ELSE IF \/ includes(planName, <<".", ".">>)
          \/ includes(planName, <<"/">>)
          \/ includes(planName, <<"\\">>)
          \/ includes(planName, <<"NUL">>)
       THEN "main"
       ELSE planName

\* ------------------------------------------------------------------ paths
\* The string whose characters are c.
StrOf(c) == CHOOSE s \in DOMAIN Chars : Chars[s] = c

RECURSIVE SplitSlash(_, _)
\* The segments of a character sequence, split at "/"; cur is the segment so far.
SplitSlash(c, cur) ==
  IF c = <<>> THEN <<cur>>
  ELSE IF Head(c) = "/" THEN <<cur>> \o SplitSlash(Tail(c), <<>>)
  ELSE SplitSlash(Tail(c), Append(cur, Head(c)))

RECURSIVE Normalize(_, _)
\* path.join's normalisation: "" and "." are dropped, ".." pops a segment.
Normalize(base, segs) ==
  IF segs = <<>> THEN base
  ELSE LET s == Head(segs)
       IN  IF s = <<>> \/ s = <<".">> THEN Normalize(base, Tail(segs))
           ELSE IF s = <<".", ".">>
                THEN Normalize(IF base = <<>> THEN base
                               ELSE SubSeq(base, 1, Len(base) - 1), Tail(segs))
                ELSE Normalize(Append(base, StrOf(s)), Tail(segs))

\* path.join(base, seg)
PathJoin(base, seg) ==
  IF seg \in DOMAIN Chars THEN Normalize(base, SplitSlash(Chars[seg], <<>>))
  ELSE Append(base, seg)

Parent(p) == SubSeq(p, 1, Len(p) - 1)
Prefixes(p) == {SubSeq(p, 1, i) : i \in 1..Len(p)}
IsPrefix(p, q) == Len(p) <= Len(q) /\ SubSeq(q, 1, Len(p)) = p

\* The working directories on the disk, and what a caller may pass as one.
WorkDirs == {"d1", "d2"}
DirectoryInputs == WorkDirs \cup {"missing", "notes.txt"}

\* path.join(currentWorkingDirectory, '.cursor', 'softwareplan')
BaseOf(wd) == <<wd, ".cursor", "softwareplan">>

\* ------------------------------------------------------------ file system
IsDir(f, p) == p \in f.dirs
IsFile(f, p) == p \in DOMAIN f.files

\* fs.mkdir(p, { recursive: true })
Mkdir(f, p) ==
  IF \E q \in Prefixes(p) : IsFile(f, q)
  THEN [ok |-> FALSE, fs |-> f]
  ELSE [ok |-> TRUE, fs |-> [f EXCEPT !.dirs = @ \cup Prefixes(p)]]

\* fs.writeFile(p, content)
WriteFile(f, p, content) ==
  IF IsDir(f, Parent(p)) /\ ~IsDir(f, p)
  THEN [ok |-> TRUE,
        fs |-> [f EXCEPT !.files =
                  [q \in DOMAIN f.files \cup {p} |->
                    IF q = p THEN content ELSE f.files[q]]]]
  ELSE [ok |-> FALSE, fs |-> f]

\* fs.rename(from, to), from a file
Rename(f, from, to) ==
  IF IsFile(f, from) /\ IsDir(f, Parent(to)) /\ ~IsDir(f, to)
  THEN [ok |-> TRUE,
        fs |-> [f EXCEPT !.files =
                  [q \in (DOMAIN f.files \ {from}) \cup {to} |->
                    IF q = to THEN f.files[from] ELSE f.files[q]]]]
  ELSE [ok |-> FALSE, fs |-> f]

\* fs.copyFile(from, to)
CopyFile(f, from, to) ==
  IF IsFile(f, from) /\ IsDir(f, Parent(to)) /\ ~IsDir(f, to)
  THEN WriteFile(f, to, f.files[from])
  ELSE [ok |-> FALSE, fs |-> f]

\* fs.rmdir(p, { recursive: true })
RmdirRecursive(f, p) ==
  IF IsDir(f, p)
  THEN [ok |-> TRUE,
        fs |-> [dirs |-> {q \in f.dirs : ~IsPrefix(p, q)},
                files |-> [q \in {r \in DOMAIN f.files : ~IsPrefix(p, r)} |->
                             f.files[q]]]]
  ELSE [ok |-> FALSE, fs |-> f]

\* The names of the subdirectories of p (readdir withFileTypes, isDirectory()).
SubDirNames(f, p) == {q[Len(q)] : q \in {r \in f.dirs : Len(r) = Len(p) + 1 /\ IsPrefix(p, r)}}

\* ------------------------------------------------------------- the record
\* A record is [goals, plans]: goals maps a goal id to a Goal, plans maps a
\* goal id to an ImplementationPlan.  Ids are the numbers Date.now() returned
\* (the code keeps them as decimal strings).
EmptyFcn == [x \in {} |-> x]
EmptyData == [goals |-> EmptyFcn, plans |-> EmptyFcn]

\* The value of an optional field that was not given.
Undefined == "undefined"

\* obj[key] = value on a JavaScript object used as a map
Put(obj, key, value) ==
  [k \in DOMAIN obj \cup {key} |-> IF k = key THEN value ELSE obj[k]]

\* todo.<name>, undefined when the object has no such key
Field(obj, name) == IF name \in DOMAIN obj THEN obj[name] ELSE Undefined

TodoFields == {"id", "title", "description", "complexity", "codeExample",
               "isComplete", "createdAt", "updatedAt"}

RECURSIVE SortedSeq(_)
\* The elements of a finite set of numbers in ascending order.
SortedSeq(S) ==
  IF S = {} THEN <<>>
  ELSE LET m == CHOOSE x \in S : \A y \in S : x <= y
       IN  <<m>> \o SortedSeq(S \ {m})

\* Object.values(obj): ids come from a clock that does not go back, so the
\* insertion order of the keys is their ascending order.
Values(obj) == [i \in 1..Cardinality(DOMAIN obj) |-> obj[SortedSeq(DOMAIN obj)[i]]]


\* ---------------------------------------------------------------- JSON
\* JSON.stringify drops a key whose value is undefined; codeExample is the
\* one field the types allow to be undefined.
StringifyObject(obj) ==
  [k \in {x \in DOMAIN obj : ~(x = "codeExample" /\ obj[x] = Undefined)} |-> obj[k]]

\* A plausible slip: the serializer leaves the optional code example out.
Stringify_dropsCodeExample(d) ==
  [goals |-> d.goals,
   plans |-> [g \in DOMAIN d.plans |->
               [todos |-> [i \in 1..Len(d.plans[g].todos) |->
                            [k \in DOMAIN d.plans[g].todos[i] \ {"codeExample"} |->
                              d.plans[g].todos[i][k]]],
                goalId |-> d.plans[g].goalId,
                updatedAt |-> d.plans[g].updatedAt]]]

\* JSON.stringify(this.data, null, 2)
Stringify(d) ==
  [goals |-> [g \in DOMAIN d.goals |-> StringifyObject(d.goals[g])],
   plans |-> [g \in DOMAIN d.plans |->
               [d.plans[g] EXCEPT !.todos =
                 [i \in 1..Len(@) |-> StringifyObject(@[i])]]]]

\* The content of a record file holding d.
JsonFile(d) == [kind |-> "json", body |-> Stringify(d)]

\* JSON.parse succeeds on the content
Parseable(content) == content.kind = "json"

\* JSON.parse(content)
Parse(content) == content.body

\* Two records agree on every goal, every plan and every field of every todo.
SameTodo(a, b) == \A k \in TodoFields : Field(a, k) = Field(b, k)
SamePlan(p, q) ==
  /\ p.goalId = q.goalId
  /\ p.updatedAt = q.updatedAt
  /\ Len(p.todos) = Len(q.todos)
  /\ \A i \in 1..Len(p.todos) : SameTodo(p.todos[i], q.todos[i])
SameRecord(d, e) ==
  /\ DOMAIN d.goals = DOMAIN e.goals
  /\ \A g \in DOMAIN d.goals :
       \A k \in {"id", "description", "createdAt"} :
         Field(d.goals[g], k) = Field(e.goals[g], k)
  /\ DOMAIN d.plans = DOMAIN e.plans
  /\ \A g \in DOMAIN d.plans : SamePlan(d.plans[g], e.plans[g])

\* ------------------------------------------------------------ markdown
RECURSIVE SumComplexity(_)
\* todos.reduce((sum, todo) => sum + todo.complexity, 0)
SumComplexity(todos) ==
  IF todos = <<>> THEN 0 ELSE Head(todos).complexity + SumComplexity(Tail(todos))

\* total > 0 ? Math.round(done / total * 100) : 0
Percent(done, total) == IF total > 0 THEN (200 * done + total) \div (2 * total) ELSE 0

IsDone(todo) == todo.isComplete
IsPending(todo) == ~todo.isComplete

\* The entries of one todo list, numbered from 1.
TodoLines(tag, todos) ==
  [i \in 1..Len(todos) |->
    [tag |-> tag, index |-> i, title |-> todos[i].title,
     complexity |-> todos[i].complexity, description |-> todos[i].description,
     codeExample |-> Field(todos[i], "codeExample"),
     createdAt |-> todos[i].createdAt, updatedAt |-> todos[i].updatedAt,
     isComplete |-> todos[i].isComplete]]

RECURSIVE PlanSections(_, _)
\* goals.forEach(goal => ...) of generatePlanMarkdown
PlanSections(goals, plans) ==
  IF goals = <<>> THEN <<>>
  ELSE LET goal == Head(goals)
           found == {i \in 1..Len(plans) : plans[i].goalId = goal.id}
       IN  IF found = {} THEN PlanSections(Tail(goals), plans)
           ELSE LET plan == plans[CHOOSE i \in found : \A j \in found : i <= j]
                    done == SelectSeq(plan.todos, IsDone)
                IN  << [tag |-> "goal", description |-> goal.description,
                        createdAt |-> goal.createdAt, updatedAt |-> plan.updatedAt,
                        completedTasks |-> Len(done), totalTasks |-> Len(plan.todos),
                        taskPercent |-> Percent(Len(done), Len(plan.todos)),
                        completedComplexity |-> SumComplexity(done),
                        totalComplexity |-> SumComplexity(plan.todos),
                        complexityPercent |->
                          Percent(SumComplexity(done), SumComplexity(plan.todos))] >>
                    \o TodoLines("todo", plan.todos)
                    \o PlanSections(Tail(goals), plans)

generatePlanMarkdown(self, goals, plans) ==
  [kind |-> "md",
   body |-> << [tag |-> "title", plan |-> self.currentPlan,
                directory |-> self.currentWorkingDirectory] >>
            \o PlanSections(goals, plans)]

RECURSIVE TaskSections(_)
\* plans.forEach(plan => ...) of generateTasksMarkdown
TaskSections(plans) ==
  IF plans = <<>> THEN <<>>
  ELSE LET pendingTodos == SelectSeq(Head(plans).todos, IsPending)
           completedTodos == SelectSeq(Head(plans).todos, IsDone)
       IN  (IF Len(pendingTodos) > 0
            THEN << [tag |-> "pending-section"] >> \o TodoLines("pending", pendingTodos)
            ELSE <<>>)
           \o (IF Len(completedTodos) > 0
               THEN << [tag |-> "completed-section"] >> \o TodoLines("completed", completedTodos)
               ELSE <<>>)
           \o TaskSections(Tail(plans))

generateTasksMarkdown(self, plans) ==
  [kind |-> "md",
   body |-> << [tag |-> "title", plan |-> self.currentPlan,
                directory |-> self.currentWorkingDirectory] >>
            \o TaskSections(plans)
            \o (IF \A i \in 1..Len(plans) : Len(plans[i].todos) = 0
                THEN << [tag |-> "placeholder"] >> ELSE <<>>)]

\* ------------------------------------------------- the storage object
\* The path fields and the two fields they are computed from.
Self ==
  [currentWorkingDirectory |-> currentWorkingDirectory,
   currentPlan |-> currentPlan,
   baseStorageDir |-> baseStorageDir,
   cursorDir |-> cursorDir,
   storagePath |-> storagePath,
   planPath |-> planPath,
   tasksPath |-> tasksPath]

\* A plausible slip: the paths of the single-plan layout, without the plan name.
updatePaths_noPlanDir(self) ==
  LET safePlanName == sanitizePlanName(self.currentPlan)
      base == PathJoin(PathJoin(<<self.currentWorkingDirectory>>, ".cursor"), "softwareplan")
  IN  [currentWorkingDirectory |-> self.currentWorkingDirectory,
       currentPlan |-> safePlanName,
       baseStorageDir |-> base,
       cursorDir |-> base,
       storagePath |-> PathJoin(base, "data.json"),
       planPath |-> PathJoin(base, "plan.md"),
       tasksPath |-> PathJoin(base, "tasks.md")]

\* A plausible slip: the stored name is used as it is, without the defensive check.
updatePaths_keepsName(self) ==
  LET base == PathJoin(PathJoin(<<self.currentWorkingDirectory>>, ".cursor"), "softwareplan")
      dir == PathJoin(base, self.currentPlan)
  IN  [currentWorkingDirectory |-> self.currentWorkingDirectory,
       currentPlan |-> self.currentPlan,
       baseStorageDir |-> base,
       cursorDir |-> dir,
       storagePath |-> PathJoin(dir, "data.json"),
       planPath |-> PathJoin(dir, "plan.md"),
       tasksPath |-> PathJoin(dir, "tasks.md")]

updatePaths(self) ==
  LET safePlanName == sanitizePlanName(self.currentPlan)
      base == PathJoin(PathJoin(<<self.currentWorkingDirectory>>, ".cursor"), "softwareplan")
      dir == PathJoin(base, safePlanName)
  IN  [currentWorkingDirectory |-> self.currentWorkingDirectory,
       currentPlan |-> safePlanName,
       baseStorageDir |-> base,
       cursorDir |-> dir,
       storagePath |-> PathJoin(dir, "data.json"),
       planPath |-> PathJoin(dir, "plan.md"),
       tasksPath |-> PathJoin(dir, "tasks.md")]

\* ------------------------------------------------------------- faults
\* A fault point names one filesystem call of a method; the call fails, and
\* leaves the disk as it was, when its point is in the set F the action drew.
SaveFaults == {<<"write", "data.json">>, <<"write", "plan.md">>, <<"write", "tasks.md">>}
FileNames == {"data.json", "plan.md", "tasks.md"}
MigrationFaults ==
  {<<"mkdir", "v1-backup">>, <<"mkdir", "main">>, <<"rmdir", "main">>}
  \cup {<<"backup", n>> : n \in FileNames}
  \cup {<<"copy", n>> : n \in FileNames}
  \cup {<<"restore", n>> : n \in FileNames}
InitializeFaults ==
  {<<"stat", "legacy">>, <<"mkdir", "plan">>, <<"read", "data.json">>,
   <<"write", "data.json">>} \cup MigrationFaults
CreateFaults == {<<"stat", "planDir">>, <<"mkdir", "planDir">>, <<"write", "data.json">>}

LoadFaults == {<<"mkdir", "plan">>, <<"read", "data.json">>, <<"write", "data.json">>}

\* The calls initialize() can make on disk f: the migration's only when the
\* legacy record file is there, and then also the stat that finds it.
InitializePoints(self, f) ==
  IF IsFile(f, PathJoin(self.baseStorageDir, "data.json"))
  THEN InitializeFaults
  ELSE LoadFaults

\* The calls save() makes for record d: the documents only when d has goals.
SavePoints(d) ==
  IF DOMAIN d.goals = {} THEN {<<"write", "data.json">>} ELSE SaveFaults

RECURSIVE FaultSets(_, _)
\* The subsets of points with at most n elements.
FaultSets(points, n) ==
  IF n = 0 THEN {{}}
  ELSE LET smaller == FaultSets(points, n - 1)
       IN  smaller \cup {S \cup {p} : S \in smaller, p \in points}

Failed(f) == [ok |-> FALSE, fs |-> f]

\* ---------------------------------------------------------------- save
generateMarkdownFiles(self, f, d, F) ==
  LET goals == Values(d.goals)
      plans == Values(d.plans)
  IN  IF Len(goals) = 0 THEN [ok |-> TRUE, fs |-> f]
      ELSE LET w1 == IF <<"write", "plan.md">> \in F THEN Failed(f)
                     ELSE WriteFile(f, self.planPath, generatePlanMarkdown(self, goals, plans))
           IN  IF ~w1.ok THEN w1
               ELSE IF <<"write", "tasks.md">> \in F THEN Failed(w1.fs)
                    ELSE WriteFile(w1.fs, self.tasksPath, generateTasksMarkdown(self, plans))

\* A plausible slip: save() regenerates the documents and skips the record file.
save_withoutRecord(self, f, d, F) == generateMarkdownFiles(self, f, d, F)

\* save(): [ok, fs]; not ok is the rethrown error.
save(self, f, d, F) ==
  LET w == IF <<"write", "data.json">> \in F THEN Failed(f)
           ELSE WriteFile(f, self.storagePath, JsonFile(d))
  IN  IF ~w.ok THEN w ELSE generateMarkdownFiles(self, w.fs, d, F)

\* ----------------------------------------------------------- migration
\* A plausible slip: the legacy check looks in the plan directory.
isV1Project_planDir(self, f, F) ==
  /\ <<"stat", "legacy">> \notin F
  /\ IsFile(f, PathJoin(self.cursorDir, "data.json"))

isV1Project(self, f, F) ==
  /\ <<"stat", "legacy">> \notin F
  /\ IsFile(f, PathJoin(self.baseStorageDir, "data.json"))

filesToMigrate ==
  << [name |-> "data.json", required |-> TRUE],
     [name |-> "plan.md", required |-> FALSE],
     [name |-> "tasks.md", required |-> FALSE] >>

basename(p) == p[Len(p)]

RECURSIVE BackupLoop(_, _, _, _, _)
\* for (const file of filesToMigrate), from file i on: [ok, fs, ops]; not ok
\* is the error thrown for a required file.  fs.stat and fs.rename of one file
\* share a fault point: either failing leaves the file where it was.
BackupLoop(self, f, i, ops, F) ==
  IF i > Len(filesToMigrate) THEN [ok |-> TRUE, fs |-> f, ops |-> ops]
  ELSE LET file == filesToMigrate[i]
           source == PathJoin(self.baseStorageDir, file.name)
           backupPath == PathJoin(PathJoin(self.baseStorageDir, "v1-backup"), file.name)
           r == IF <<"backup", file.name>> \in F THEN Failed(f)
                ELSE Rename(f, source, backupPath)
       IN  IF r.ok
           THEN BackupLoop(self, r.fs, i + 1,
                           Append(ops, [from |-> source, to |-> backupPath]), F)
           ELSE IF file.required THEN [ok |-> FALSE, fs |-> f, ops |-> ops]
                ELSE BackupLoop(self, f, i + 1, ops, F)

RECURSIVE RestoreLoop(_, _, _, _)
\* for (const operation of backupOperations) of rollbackMigration: a rename
\* that fails is logged and the loop goes on.
RestoreLoop(f, ops, i, F) ==
  IF i > Len(ops) THEN f
  ELSE LET r == IF <<"restore", basename(ops[i].from)>> \in F THEN Failed(f)
                ELSE Rename(f, ops[i].to, ops[i].from)
       IN  RestoreLoop(r.fs, ops, i + 1, F)

\* rollbackMigration: the disk it leaves; it throws nothing.
rollbackMigration(f, backupOperations, mainPlanDir, F) ==
  LET r == IF <<"rmdir", "main">> \in F THEN Failed(f)
           ELSE RmdirRecursive(f, mainPlanDir)
  IN  RestoreLoop(r.fs, backupOperations, 1, F)

RECURSIVE CopyLoop(_, _, _, _, _)
\* for (const operation of backupOperations) of step 2, from operation i on.
CopyLoop(f, ops, mainPlanDir, i, F) ==
  IF i > Len(ops) THEN [ok |-> TRUE, fs |-> f]
  ELSE LET fileName == basename(ops[i].to)
           r == IF <<"copy", fileName>> \in F THEN Failed(f)
                ELSE CopyFile(f, ops[i].to, PathJoin(mainPlanDir, fileName))
       IN  IF r.ok THEN CopyLoop(r.fs, ops, mainPlanDir, i + 1, F)
           ELSE [ok |-> FALSE, fs |-> rollbackMigration(f, ops, mainPlanDir, F)]

\* A plausible slip: the files are moved to the backup and never copied to main.
migrateV1ToV2_noCopy(self, f, F) ==
  LET backupDir == PathJoin(self.baseStorageDir, "v1-backup")
      mainPlanDir == PathJoin(self.baseStorageDir, "main")
      m1 == IF <<"mkdir", "v1-backup">> \in F THEN Failed(f) ELSE Mkdir(f, backupDir)
      m2 == IF <<"mkdir", "main">> \in F THEN Failed(m1.fs) ELSE Mkdir(m1.fs, mainPlanDir)
      b == BackupLoop(self, m2.fs, 1, <<>>, F)
  IN  IF ~m1.ok THEN Failed(f)
      ELSE IF ~m2.ok THEN Failed(m1.fs)
      ELSE [ok |-> b.ok, fs |-> b.fs]

\* migrateV1ToV2: [ok, fs]; not ok is "Migration failed".
migrateV1ToV2(self, f, F) ==
  LET backupDir == PathJoin(self.baseStorageDir, "v1-backup")
      mainPlanDir == PathJoin(self.baseStorageDir, "main")
      m1 == IF <<"mkdir", "v1-backup">> \in F THEN Failed(f) ELSE Mkdir(f, backupDir)
      m2 == IF <<"mkdir", "main">> \in F THEN Failed(m1.fs) ELSE Mkdir(m1.fs, mainPlanDir)
      b == BackupLoop(self, m2.fs, 1, <<>>, F)
  IN  IF ~m1.ok THEN Failed(f)
      ELSE IF ~m2.ok THEN Failed(m1.fs)
      ELSE IF ~b.ok THEN Failed(b.fs)
      ELSE CopyLoop(b.fs, b.ops, mainPlanDir, 1, F)

\* ------------------------------------------------------------ initialize
NoFs == [dirs |-> {}, files |-> EmptyFcn]
NoMig ==
  [ran |-> FALSE, ok |-> FALSE, again |-> FALSE, wd |-> "", plan |-> "",
   pre |-> NoFs, post |-> NoFs]

\* A plausible slip: the cache is not reset before the reload.
ResetData_keep(d) == d

\* this.data = { goals: {}, plans: {} } at the top of initialize()
ResetData(d) == EmptyData

\* A plausible slip: the reload resets the cache and reads nothing.
initialize_noLoad(self, f, d, F) ==
  [err |-> "", fs |-> f, data |-> ResetData(d), mig |-> NoMig]

\* initialize() from its first await on, the cache holding d0: the migration,
\* the mkdir and the read, or the save of d0 when nothing could be read.
initializeLoad(self, f, d0, F) ==
  LET v1 == isV1Project(self, f, F)
      m == IF v1 THEN migrateV1ToV2(self, f, F) ELSE [ok |-> TRUE, fs |-> f]
      info == [ran |-> v1, ok |-> v1 /\ m.ok, again |-> FALSE,
               wd |-> self.currentWorkingDirectory, plan |-> self.currentPlan,
               pre |-> f, post |-> m.fs]
      k == IF <<"mkdir", "plan">> \in F THEN Failed(m.fs) ELSE Mkdir(m.fs, self.cursorDir)
      readable == /\ <<"read", "data.json">> \notin F
                  /\ IsFile(k.fs, self.storagePath)
                  /\ Parseable(k.fs.files[self.storagePath])
      s == save(self, k.fs, d0, F)
  IN  IF ~m.ok
      THEN [err |-> "MigrationFailure", fs |-> m.fs, data |-> d0, mig |-> info]
      ELSE IF ~k.ok
      THEN [err |-> "IOFailure", fs |-> k.fs, data |-> d0, mig |-> info]
      ELSE IF readable
      THEN [err |-> "", fs |-> k.fs, data |-> Parse(k.fs.files[self.storagePath]),
            mig |-> info]
      ELSE [err |-> IF s.ok THEN "" ELSE "IOFailure", fs |-> s.fs, data |-> d0,
            mig |-> info]

\* initialize(): [err, fs, data, mig]; err is "" when it returns.
initialize(self, f, d, F) == initializeLoad(self, f, ResetData(d), F)

\* ------------------------------------------------------------ listPlans
LowerSeq == <<"a","b","c","d","e","f","g","h","i","j","k","l","m",
              "n","o","p","q","r","s","t","u","v","w","x","y","z">>
UpperSeq == <<"A","B","C","D","E","F","G","H","I","J","K","L","M",
              "N","O","P","Q","R","S","T","U","V","W","X","Y","Z">>
DigitSeq == <<"0","1","2","3","4","5","6","7","8","9">>
IndexOf(seq, x) == CHOOSE i \in 1..Len(seq) : seq[i] = x

\* The UTF-16 code unit of a character.
CodeUnit(ch) ==
  CASE ch \in Lower -> 96 + IndexOf(LowerSeq, ch)
    [] ch \in Upper -> 64 + IndexOf(UpperSeq, ch)
    [] ch \in Digit -> 47 + IndexOf(DigitSeq, ch)
    [] ch = "NUL" -> 0
    [] ch = "-" -> 45
    [] ch = "." -> 46
    [] ch = "/" -> 47
    [] ch = "\\" -> 92
    [] ch = "_" -> 95

RECURSIVE CharsBefore(_, _)
\* a sorts before b in code unit order (Array.prototype.sort's default order)
CharsBefore(a, b) ==
  IF a = <<>> THEN b # <<>>
  ELSE IF b = <<>> THEN FALSE
  ELSE IF Head(a) = Head(b) THEN CharsBefore(Tail(a), Tail(b))
  ELSE CodeUnit(Head(a)) < CodeUnit(Head(b))

RECURSIVE SortNames(_)
\* names.sort()
SortNames(S) ==
  IF S = {} THEN <<>>
  ELSE LET m == CHOOSE x \in S : \A y \in S \ {x} : CharsBefore(Chars[x], Chars[y])
       IN  <<m>> \o SortNames(S \ {m})

InSeq(x, seq) == \E i \in 1..Len(seq) : seq[i] = x

\* A plausible slip: the backup directory is listed like a plan.
listPlans_withBackup(self, f, F) ==
  IF <<"readdir", "base">> \in F \/ ~IsDir(f, self.baseStorageDir) THEN <<>>
  ELSE SortNames(SubDirNames(f, self.baseStorageDir))

\* listPlans(): the sorted names; a failing readdir gives the empty list.
listPlans(self, f, F) ==
  IF <<"readdir", "base">> \in F \/ ~IsDir(f, self.baseStorageDir) THEN <<>>
  ELSE SortNames(SubDirNames(f, self.baseStorageDir) \ {"v1-backup"})

\* ------------------------------------------------------------------ Init
LegacyData ==
  [goals |-> (0 :> [id |-> 0, description |-> "legacy goal", createdAt |-> 0]),
   plans |-> (0 :> [goalId |-> 0,
                    todos |-> << [id |-> 0, title |-> "old", description |-> "d",
                                  complexity |-> 3, codeExample |-> Undefined,
                                  isComplete |-> FALSE, createdAt |-> 0,
                                  updatedAt |-> 0] >>,
                    updatedAt |-> 0])]
LegacyDoc(name) == [kind |-> "md", body |-> << [tag |-> "legacy", name |-> name] >>]

\* What a working directory may hold when the server starts.
Layouts == {"fresh", "legacy", "legacy-record-only"}

LayoutDirs(wd, layout) ==
  {<<wd>>} \cup (IF layout = "fresh" THEN {} ELSE Prefixes(BaseOf(wd)))

LayoutFiles(wd, layout) ==
  CASE layout = "fresh" -> EmptyFcn
    [] layout = "legacy" ->
         (PathJoin(BaseOf(wd), "data.json") :> JsonFile(LegacyData))
         @@ (PathJoin(BaseOf(wd), "plan.md") :> LegacyDoc("plan.md"))
         @@ (PathJoin(BaseOf(wd), "tasks.md") :> LegacyDoc("tasks.md"))
    [] layout = "legacy-record-only" ->
         (PathJoin(BaseOf(wd), "data.json") :> JsonFile(LegacyData))

InitialFs(l1, l2) ==
  [dirs |-> LayoutDirs("d1", l1) \cup LayoutDirs("d2", l2),
   files |-> (<<"notes.txt">> :> [kind |-> "md", body |-> <<>>])
             @@ LayoutFiles("d1", l1) @@ LayoutFiles("d2", l2)]

NoOp == [op |-> "", arg |-> "", err |-> "", reload |-> FALSE, result |-> <<>>]
NoSnap == [wd |-> "", plan |-> "", data |-> EmptyData]

\* The state after `new Storage()`: the constructor sets the working
\* directory and the paths; nothing has been read yet.
InitWith(faults, mutations, switches) ==
  /\ \E l1 \in {"fresh", "legacy"} : fs = InitialFs(l1, "legacy-record-only")
  /\ data = EmptyData
  /\ LET self == updatePaths([currentWorkingDirectory |-> "d1", currentPlan |-> "main",
                              baseStorageDir |-> <<>>, cursorDir |-> <<>>,
                              storagePath |-> <<>>, planPath |-> <<>>,
                              tasksPath |-> <<>>])
     IN  /\ currentWorkingDirectory = self.currentWorkingDirectory
         /\ currentPlan = self.currentPlan
         /\ baseStorageDir = self.baseStorageDir
         /\ cursorDir = self.cursorDir
         /\ storagePath = self.storagePath
         /\ planPath = self.planPath
         /\ tasksPath = self.tasksPath
  /\ now = 1
  /\ phase = "constructed"
  /\ faultsLeft = faults
  /\ mutationsLeft = mutations
  /\ switchesLeft = switches
  /\ last = NoOp
  /\ mig = NoMig
  /\ migrated = {}
  /\ snap = NoSnap
  /\ snapBefore = NoSnap
  /\ currentGoal = <<>>

Init == InitWith(MaxFaults, MaxFaultyMutations, MaxFaultySwitches)
InitReliable == InitWith(0, MaxMutations, MaxSwitches)

\* --------------------------------------------------------------- actions
SetSelf(self) ==
  /\ currentWorkingDirectory' = self.currentWorkingDirectory
  /\ currentPlan' = self.currentPlan
  /\ baseStorageDir' = self.baseStorageDir
  /\ cursorDir' = self.cursorDir
  /\ storagePath' = self.storagePath
  /\ planPath' = self.planPath
  /\ tasksPath' = self.tasksPath

SelfUnchanged ==
  UNCHANGED <<currentWorkingDirectory, currentPlan, baseStorageDir, cursorDir,
              storagePath, planPath, tasksPath>>

\* The errors of a call that throws before it touches anything.
Rejections ==
  {"InvalidDirectory", "InvalidNamespaceName", "NamespaceNotFound",
   "NamespaceAlreadyExists", "PlanNotFound", "TodoNotFound"}

\* The server is up and its last call was neither rejected nor a listPlans.
\* Such a call leaves every field and the disk as they were, so the calls that
\* can follow it are those that can follow the state it was made in: a run is
\* followed up to such a call and not beyond it.  A run is also followed up to
\* its first list_software_plans request and not beyond it.
Serving ==
  /\ phase \in {"running", "suspended"}
  /\ last.err \notin Rejections
  /\ last.op \notin {"listPlans", "list_software_plans"}

\* The bookkeeping of a call that threw before it touched anything.
Rejected(op, arg, err) ==
  /\ last' = [op |-> op, arg |-> "", err |-> err, reload |-> FALSE, result |-> <<>>]
  /\ mig' = NoMig
  /\ SelfUnchanged
  /\ UNCHANGED <<fs, data, now, phase, faultsLeft, mutationsLeft, switchesLeft, migrated, snap, snapBefore>>
  /\ UNCHANGED currentGoal

\* The effect of an initialize() run on the disk, the record and the history.
Reloaded(op, arg, r, F) ==
  /\ fs' = r.fs
  /\ data' = r.data
  /\ mig' = [r.mig EXCEPT !.again = r.mig.wd \in migrated]
  /\ migrated' = IF r.mig.ok THEN migrated \cup {r.mig.wd} ELSE migrated
  /\ last' = [op |-> op, arg |-> arg, err |-> r.err, reload |-> TRUE, result |-> <<>>]
  /\ faultsLeft' = faultsLeft - Cardinality(F)

\* restoreCurrentGoal(): the goal of record d created last, the first of them
\* when several share that time; null when d has no goal.
restoreCurrentGoal(d) ==
  LET goals == Values(d.goals)
      latest == {i \in 1..Len(goals) :
                   /\ \A j \in 1..Len(goals) : goals[j].createdAt <= goals[i].createdAt
                   /\ \A j \in 1..(i - 1) : goals[j].createdAt < goals[i].createdAt}
  IN  IF Len(goals) > 0 THEN <<goals[CHOOSE i \in latest : TRUE]>> ELSE <<>>

\* server start: storage.initialize(), then restoreCurrentGoal(); a failure
\* of the former ends the process.
Startup ==
  /\ phase = "constructed"
  /\ \E F \in FaultSets(InitializePoints(Self, fs), faultsLeft) :
       \E r \in {initialize(Self, fs, data, F)} :
         /\ Reloaded("initialize", "", r, F)
         /\ phase' = IF r.err = "" THEN "running" ELSE "stopped"
         /\ currentGoal' = IF r.err = "" THEN restoreCurrentGoal(r.data) ELSE currentGoal
  /\ SelfUnchanged
  /\ UNCHANGED <<now, mutationsLeft, switchesLeft, snap, snapBefore>>

\* A plausible slip: the directory is assigned before it is validated.
SetWorkingDirectory_assignFirst(directory) ==
  /\ Serving
  /\ ~IsDir(fs, <<directory>>)
  /\ SetSelf(updatePaths([Self EXCEPT !.currentWorkingDirectory = directory]))
  /\ last' = [op |-> "setWorkingDirectory", arg |-> "", err |-> "InvalidDirectory",
              reload |-> FALSE, result |-> <<>>]
  /\ mig' = NoMig
  /\ UNCHANGED <<fs, data, now, phase, faultsLeft, mutationsLeft, switchesLeft, migrated,
                 snap, snapBefore>>
  /\ UNCHANGED currentGoal

\* setWorkingDirectory(directory)
SetWorkingDirectory(directory) ==
  /\ Serving
  /\ \/ /\ ~IsDir(fs, <<directory>>)
        /\ Rejected("setWorkingDirectory", directory, "InvalidDirectory")
     \/ /\ IsDir(fs, <<directory>>)
        /\ switchesLeft > 0
        /\ \E self \in {updatePaths([Self EXCEPT !.currentWorkingDirectory = directory])} :
             /\ SetSelf(self)
             /\ \E F \in FaultSets(InitializePoints(self, fs), faultsLeft) :
                  \E r \in {initialize(self, fs, data, F)} :
                    Reloaded("setWorkingDirectory", directory, r, F)
        /\ snap' = [wd |-> currentWorkingDirectory, plan |-> currentPlan, data |-> data]
        /\ snapBefore' = snap
        /\ switchesLeft' = switchesLeft - 1
        /\ UNCHANGED <<now, phase, mutationsLeft>>
  /\ UNCHANGED currentGoal

\* setActivePlan(planName)
SetActivePlan(planName) ==
  /\ Serving
  /\ \/ /\ sanitizePlanName(planName) # planName
        /\ Rejected("setActivePlan", planName, "InvalidNamespaceName")
     \/ /\ sanitizePlanName(planName) = planName
        /\ \E F \in FaultSets({<<"readdir", "base">>}, faultsLeft) :
             /\ ~InSeq(planName, listPlans(Self, fs, F))
             /\ last' = [op |-> "setActivePlan", arg |-> "",
                         err |-> "NamespaceNotFound", reload |-> FALSE, result |-> <<>>]
             /\ faultsLeft' = faultsLeft - Cardinality(F)
        /\ mig' = NoMig
        /\ SelfUnchanged
        /\ UNCHANGED <<fs, data, now, phase, mutationsLeft, switchesLeft, migrated, snap, snapBefore>>
     \/ /\ sanitizePlanName(planName) = planName
        /\ InSeq(planName, listPlans(Self, fs, {}))
        /\ switchesLeft > 0
        /\ \E self \in {updatePaths([Self EXCEPT !.currentPlan = planName])} :
             /\ SetSelf(self)
             /\ \E F \in FaultSets(InitializePoints(self, fs), faultsLeft) :
                  \E r \in {initialize(self, fs, data, F)} :
                    Reloaded("setActivePlan", planName, r, F)
        /\ snap' = [wd |-> currentWorkingDirectory, plan |-> currentPlan, data |-> data]
        /\ snapBefore' = snap
        /\ switchesLeft' = switchesLeft - 1
        /\ UNCHANGED <<now, phase, mutationsLeft>>
  /\ UNCHANGED currentGoal

\* listPlans()
ListPlans ==
  /\ Serving
  /\ \E F \in FaultSets({<<"readdir", "base">>}, faultsLeft) :
       /\ last' = [op |-> "listPlans", arg |-> "", err |-> "", reload |-> FALSE,
                   result |-> listPlans(Self, fs, F)]
       /\ faultsLeft' = faultsLeft - Cardinality(F)
  /\ mig' = NoMig
  /\ SelfUnchanged
  /\ UNCHANGED <<fs, data, now, phase, mutationsLeft, switchesLeft, migrated, snap, snapBefore>>
  /\ UNCHANGED currentGoal

\* process.cwd(): the directory the server process was started in.  Nothing in
\* the program changes it, and the constructor starts the storage there.
processCwd == "d1"

\* The list_software_plans request: when the storage's working directory is
\* not process.cwd() the handler first calls setWorkingDirectory(process.cwd())
\* and swallows its failure, then answers with listPlans().
ListSoftwarePlans ==
  /\ Serving
  /\ \/ /\ currentWorkingDirectory = processCwd
        /\ \E F \in FaultSets({<<"readdir", "base">>}, faultsLeft) :
             /\ last' = [op |-> "list_software_plans", arg |-> "", err |-> "",
                         reload |-> FALSE, result |-> listPlans(Self, fs, F)]
             /\ faultsLeft' = faultsLeft - Cardinality(F)
        /\ mig' = NoMig
        /\ SelfUnchanged
        /\ UNCHANGED <<fs, data, now, phase, mutationsLeft, switchesLeft, migrated, snap,
                       snapBefore>>
     \/ /\ currentWorkingDirectory # processCwd
        /\ IsDir(fs, <<processCwd>>)
        /\ \E self \in {updatePaths([Self EXCEPT !.currentWorkingDirectory = processCwd])} :
             /\ SetSelf(self)
             /\ \E F \in FaultSets(InitializePoints(self, fs) \cup {<<"readdir", "base">>},
                                   faultsLeft) :
                  \E r \in {initialize(self, fs, data, F)} :
                    /\ fs' = r.fs
                    /\ data' = r.data
                    /\ mig' = [r.mig EXCEPT !.again = r.mig.wd \in migrated]
                    /\ migrated' = IF r.mig.ok THEN migrated \cup {r.mig.wd} ELSE migrated
                    /\ last' = [op |-> "list_software_plans", arg |-> "", err |-> "",
                                reload |-> TRUE, result |-> listPlans(self, r.fs, F)]
                    /\ faultsLeft' = faultsLeft - Cardinality(F)
        /\ snap' = [wd |-> currentWorkingDirectory, plan |-> currentPlan, data |-> data]
        /\ snapBefore' = snap
        /\ UNCHANGED <<now, phase, mutationsLeft, switchesLeft>>
  /\ UNCHANGED currentGoal

\* if (goal): undefined and the empty string are falsy
Truthy(goal) == goal \notin {Undefined, ""}
GoalInputs == {Undefined, "", "build widget"}

\* A plausible slip: the initial plan is written without its goal.
NewPlanData_noGoal(goal) ==
  IF Truthy(goal)
  THEN [goals |-> EmptyFcn,
        plans |-> (now :> [goalId |-> now, todos |-> <<>>, updatedAt |-> now])]
  ELSE EmptyData

\* The record createNewPlan writes.
NewPlanData(goal) ==
  IF Truthy(goal)
  THEN [goals |-> (now :> [id |-> now, description |-> goal, createdAt |-> now]),
        plans |-> (now :> [goalId |-> now, todos |-> <<>>, updatedAt |-> now])]
  ELSE EmptyData

\* createNewPlan(planName, goal)
CreateNewPlan(planName, goal) ==
  /\ Serving
  /\ \/ /\ sanitizePlanName(planName) # planName
        /\ Rejected("createNewPlan", planName, "InvalidNamespaceName")
     \/ /\ sanitizePlanName(planName) = planName
        /\ LET planDir == PathJoin(baseStorageDir, planName)
           IN  IsDir(fs, planDir) \/ IsFile(fs, planDir)
        /\ Rejected("createNewPlan", planName, "NamespaceAlreadyExists")
     \/ /\ sanitizePlanName(planName) = planName
        /\ mutationsLeft > 0
        /\ \E F \in FaultSets(CreateFaults, faultsLeft) :
             LET planDir == PathJoin(baseStorageDir, planName)
                 exists == IsDir(fs, planDir) \/ IsFile(fs, planDir)
                 k == IF <<"mkdir", "planDir">> \in F THEN Failed(fs) ELSE Mkdir(fs, planDir)
                 w == IF <<"write", "data.json">> \in F THEN Failed(k.fs)
                      ELSE WriteFile(k.fs, PathJoin(planDir, "data.json"),
                                     JsonFile(NewPlanData(goal)))
             IN  /\ exists => <<"stat", "planDir">> \in F
                 /\ fs' = IF k.ok THEN w.fs ELSE fs
                 /\ last' = [op |-> "createNewPlan", arg |-> planName,
                             err |-> IF k.ok /\ w.ok THEN "" ELSE "IOFailure",
                             reload |-> FALSE, result |-> <<>>]
                 /\ faultsLeft' = faultsLeft - Cardinality(F)
        /\ mutationsLeft' = mutationsLeft - 1
        /\ mig' = NoMig
        /\ SelfUnchanged
        /\ UNCHANGED <<data, now, phase, switchesLeft, migrated, snap, snapBefore>>
  /\ UNCHANGED currentGoal

\* The tail of a mutating method: the record d is in memory, then save().
MutatedWith(op, d, result) ==
  /\ mutationsLeft > 0
  /\ \E F \in FaultSets(SavePoints(d), faultsLeft) :
       \E s \in {save(Self, fs, d, F)} :
         /\ fs' = s.fs
         /\ last' = [op |-> op, arg |-> "", err |-> IF s.ok THEN "" ELSE "IOFailure",
                     reload |-> FALSE, result |-> IF s.ok THEN result ELSE <<>>]
         /\ faultsLeft' = faultsLeft - Cardinality(F)
  /\ data' = d
  /\ mutationsLeft' = mutationsLeft - 1
  /\ mig' = NoMig
  /\ SelfUnchanged
  /\ UNCHANGED <<now, phase, switchesLeft, migrated, snap, snapBefore>>
  /\ UNCHANGED currentGoal

\* A mutation whose return value the model does not keep.
Mutated(op, d) == MutatedWith(op, d, <<>>)

Descriptions == {"build widget"}
GoalIdInputs == 0..MaxClock
TodoIdInputs == 0..MaxClock
TodoInputs ==
  [title : {"t"}, description : {"d"}, complexity : {3, 11},
   codeExample : {Undefined, "code"}]

\* createGoal(description)
CreateGoal(description) ==
  /\ Serving
  /\ LET goal == [id |-> now, description |-> description, createdAt |-> now]
     IN  Mutated("createGoal", [data EXCEPT !.goals = Put(@, goal.id, goal)])

\* createPlan(goalId)
CreatePlan(goalId) ==
  /\ Serving
  /\ LET plan == [goalId |-> goalId, todos |-> <<>>, updatedAt |-> now]
     IN  Mutated("createPlan", [data EXCEPT !.plans = Put(@, goalId, plan)])

\* getPlan(goalId) found a plan
HasPlan(d, goalId) == goalId \in DOMAIN d.plans

\* A plausible slip: the new todo is put in front of the sequence.
AddTodo_prepend(goalId, fields) ==
  /\ Serving
  /\ HasPlan(data, goalId)
  /\ Len(data.plans[goalId].todos) < MaxTodos
  /\ LET todo == [id |-> now, title |-> fields.title,
                  description |-> fields.description,
                  complexity |-> fields.complexity,
                  codeExample |-> fields.codeExample, isComplete |-> FALSE,
                  createdAt |-> now, updatedAt |-> now]
     IN  Mutated("addTodo",
                 [data EXCEPT !.plans[goalId] =
                   [@ EXCEPT !.todos = <<todo>> \o @, !.updatedAt = now]])

\* addTodo(goalId, { title, description, complexity, codeExample })
AddTodo(goalId, fields) ==
  /\ Serving
  /\ \/ /\ ~HasPlan(data, goalId)
        /\ Rejected("addTodo", "", "PlanNotFound")
     \/ /\ HasPlan(data, goalId)
        /\ Len(data.plans[goalId].todos) < MaxTodos
        /\ LET todo == [id |-> now, title |-> fields.title,
                        description |-> fields.description,
                        complexity |-> fields.complexity,
                        codeExample |-> fields.codeExample, isComplete |-> FALSE,
                        createdAt |-> now, updatedAt |-> now]
           IN  Mutated("addTodo",
                       [data EXCEPT !.plans[goalId] =
                         [@ EXCEPT !.todos = Append(@, todo), !.updatedAt = now]])

\* A plausible slip: removeTodo throws, as updateTodoStatus does, when the plan
\* has no todo with that id.
RemoveTodo_throwsWhenAbsent(goalId, todoId) ==
  /\ Serving
  /\ \/ /\ ~HasPlan(data, goalId)
        /\ Rejected("removeTodo", "", "PlanNotFound")
     \/ /\ HasPlan(data, goalId)
        /\ \A i \in 1..Len(data.plans[goalId].todos) : data.plans[goalId].todos[i].id # todoId
        /\ Rejected("removeTodo", "", "TodoNotFound")
     \/ /\ HasPlan(data, goalId)
        /\ \E i \in 1..Len(data.plans[goalId].todos) : data.plans[goalId].todos[i].id = todoId
        /\ LET keep(todo) == todo.id # todoId
           IN  Mutated("removeTodo",
                       [data EXCEPT !.plans[goalId] =
                         [@ EXCEPT !.todos = SelectSeq(@, keep), !.updatedAt = now]])

\* removeTodo(goalId, todoId)
RemoveTodo(goalId, todoId) ==
  /\ Serving
  /\ \/ /\ ~HasPlan(data, goalId)
        /\ Rejected("removeTodo", "", "PlanNotFound")
     \/ /\ HasPlan(data, goalId)
        /\ LET keep(todo) == todo.id # todoId
           IN  Mutated("removeTodo",
                       [data EXCEPT !.plans[goalId] =
                         [@ EXCEPT !.todos = SelectSeq(@, keep), !.updatedAt = now]])

\* A plausible slip: a todo id the plan does not hold is not reported.
UpdateTodoStatus_ignoresAbsent(goalId, todoId, isComplete) ==
  /\ Serving
  /\ HasPlan(data, goalId)
  /\ \A i \in 1..Len(data.plans[goalId].todos) : data.plans[goalId].todos[i].id # todoId
  /\ Mutated("updateTodoStatus", [data EXCEPT !.plans[goalId].updatedAt = now])

\* updateTodoStatus(goalId, todoId, isComplete)
UpdateTodoStatus(goalId, todoId, isComplete) ==
  /\ Serving
  /\ \/ /\ ~HasPlan(data, goalId)
        /\ Rejected("updateTodoStatus", "", "PlanNotFound")
     \/ /\ HasPlan(data, goalId)
        /\ \A i \in 1..Len(data.plans[goalId].todos) : data.plans[goalId].todos[i].id # todoId
        /\ Rejected("updateTodoStatus", "", "TodoNotFound")
     \/ /\ HasPlan(data, goalId)
        /\ LET todos == data.plans[goalId].todos
               found == {i \in 1..Len(todos) : todos[i].id = todoId}
           IN  /\ found # {}
               /\ LET i == CHOOSE x \in found : \A y \in found : x <= y
                      todo == [todos[i] EXCEPT !.isComplete = isComplete, !.updatedAt = now]
                  IN  MutatedWith("updateTodoStatus",
                                  [data EXCEPT !.plans[goalId] =
                                    [@ EXCEPT !.todos[i] = todo, !.updatedAt = now]],
                                  <<todo>>)

\* The clock moves on.
Tick ==
  /\ phase = "constructed" \/ Serving
  /\ now < MaxClock
  /\ now' = now + 1
  /\ SelfUnchanged
  /\ UNCHANGED <<fs, data, phase, faultsLeft, mutationsLeft, switchesLeft, last, mig, migrated, snap, snapBefore>>
  /\ UNCHANGED currentGoal

Next ==
  \/ Startup
  \/ \E directory \in DirectoryInputs : SetWorkingDirectory(directory)
  \/ \E planName \in PlanNameInputs : SetActivePlan(planName)
  \/ ListPlans
  \/ \E planName \in PlanNameInputs, goal \in GoalInputs : CreateNewPlan(planName, goal)
  \/ \E description \in Descriptions : CreateGoal(description)
  \/ \E goalId \in GoalIdInputs : CreatePlan(goalId)
  \/ \E goalId \in GoalIdInputs, fields \in TodoInputs : AddTodo(goalId, fields)
  \/ \E goalId \in GoalIdInputs, todoId \in TodoIdInputs : RemoveTodo(goalId, todoId)
  \/ \E goalId \in GoalIdInputs, todoId \in TodoIdInputs, isComplete \in BOOLEAN :
       UpdateTodoStatus(goalId, todoId, isComplete)
  \/ Tick

\* setActivePlan(planName) up to the first await inside its initialize(): the
\* name is checked, currentPlan and the paths are switched and the cache is
\* reset (storage.ts 372); the call is then suspended at isV1Project()'s
\* fs.access.  The handlers are async functions the server starts as the
\* requests arrive, so other calls may run before this one resumes.
SetActivePlanSuspends(planName) ==
  /\ phase = "running"
  /\ Serving
  /\ sanitizePlanName(planName) = planName
  /\ InSeq(planName, listPlans(Self, fs, {}))
  /\ switchesLeft > 0
  /\ SetSelf(updatePaths([Self EXCEPT !.currentPlan = planName]))
  /\ data' = ResetData(data)
  /\ phase' = "suspended"
  /\ last' = [op |-> "setActivePlan", arg |-> planName, err |-> "", reload |-> FALSE,
              result |-> <<>>]
  /\ mig' = NoMig
  /\ snap' = [wd |-> currentWorkingDirectory, plan |-> currentPlan, data |-> data]
  /\ snapBefore' = snap
  /\ switchesLeft' = switchesLeft - 1
  /\ UNCHANGED <<fs, now, faultsLeft, mutationsLeft, migrated>>
  /\ UNCHANGED currentGoal

\* The suspended initialize() resumes: it runs on the fields, the cache and
\* the disk as they are now.
InitializeResumes ==
  /\ phase = "suspended"
  /\ \E F \in FaultSets(InitializePoints(Self, fs), faultsLeft) :
       \E r \in {initializeLoad(Self, fs, data, F)} :
         Reloaded("initialize", "", r, F)
  /\ phase' = "running"
  /\ SelfUnchanged
  /\ UNCHANGED <<now, mutationsLeft, switchesLeft, snap, snapBefore>>
  /\ UNCHANGED currentGoal

\* The calls of Next, and calls that overlap a suspended setActivePlan.
NextOverlap ==
  \/ Startup
  \/ \E directory \in DirectoryInputs : SetWorkingDirectory(directory)
  \/ \E planName \in PlanNameInputs : SetActivePlan(planName)
  \/ ListPlans
  \/ \E planName \in PlanNameInputs, goal \in GoalInputs : CreateNewPlan(planName, goal)
  \/ \E description \in Descriptions : CreateGoal(description)
  \/ \E goalId \in GoalIdInputs : CreatePlan(goalId)
  \/ \E goalId \in GoalIdInputs, fields \in TodoInputs : AddTodo(goalId, fields)
  \/ \E goalId \in GoalIdInputs, todoId \in TodoIdInputs : RemoveTodo(goalId, todoId)
  \/ \E goalId \in GoalIdInputs, todoId \in TodoIdInputs, isComplete \in BOOLEAN :
       UpdateTodoStatus(goalId, todoId, isComplete)
  \/ Tick
  \/ \E planName \in PlanNameInputs : SetActivePlanSuspends(planName)
  \/ InitializeResumes

\* The requests of a client that selects directories, starts goals and lists
\* the plans through the server's handlers.
NextRequests ==
  \/ Startup
  \/ \E directory \in DirectoryInputs : SetWorkingDirectory(directory)
  \/ ListSoftwarePlans
  \/ \E description \in Descriptions : CreateGoal(description)
  \/ Tick

\* Spec: the environment may fail up to MaxFaults filesystem calls.
Spec == Init /\ [][Next]_vars
\* SpecReliable: the same program on a disk whose calls do not fail.
SpecReliable == InitReliable /\ [][Next]_vars
InitOverlap == InitWith(0, MaxOverlapMutations, MaxOverlapSwitches)
\* SpecRequests: the faulty disk of Spec under the requests of NextRequests.
SpecRequests == Init /\ [][NextRequests]_vars
\* SpecOverlap: a reliable disk, and calls that arrive while a setActivePlan
\* is suspended.
SpecOverlap == InitOverlap /\ [][NextOverlap]_vars

\* ------------------------------------------------- the tool dispatcher
\* The server between two awaits of a handler: the fields of the storage, the
\* disk, the cache, the dispatcher's currentGoal (goal), the error thrown so
\* far, and what the last initialize() did.
ServerState ==
  [self |-> Self, fs |-> fs, data |-> data, goal |-> currentGoal, err |-> "",
   reload |-> FALSE, mig |-> NoMig, migrated |-> migrated]

Raise(st, err) == [st EXCEPT !.err = err]

\* The fault points of a start_planning request: its own listPlans() and the
\* fs.stat of the createNewPlan('main', goal) that may follow.
PlanningPoints == {<<"readdir", "base">>, <<"stat", "planDir">>}

\* storage.createNewPlan(planName, goal) on the state st
createNewPlan(st, planName, goal, F) ==
  LET planDir == PathJoin(st.self.baseStorageDir, planName)
      exists == IsDir(st.fs, planDir) \/ IsFile(st.fs, planDir)
      k == Mkdir(st.fs, planDir)
      w == WriteFile(k.fs, PathJoin(planDir, "data.json"), JsonFile(NewPlanData(goal)))
  IN  IF sanitizePlanName(planName) # planName THEN Raise(st, "InvalidNamespaceName")
      ELSE IF exists /\ <<"stat", "planDir">> \notin F
      THEN Raise(st, "NamespaceAlreadyExists")
      ELSE IF ~k.ok THEN Raise(st, "IOFailure")
      ELSE IF ~w.ok THEN [st EXCEPT !.fs = k.fs, !.err = "IOFailure"]
      ELSE [st EXCEPT !.fs = w.fs]

\* The state after `this.data` became d and save() returned s.
Saved(st, d, s) ==
  [st EXCEPT !.data = d, !.fs = s.fs, !.err = IF s.ok THEN "" ELSE "IOFailure"]

\* a change of the cache followed by `await this.save()`
Changed(st, d) == Saved(st, d, save(st.self, st.fs, d, {}))

\* this.currentGoal = await storage.createGoal(description)
Assigned(st, goal) == IF st.err = "" THEN [st EXCEPT !.goal = <<goal>>] ELSE st
createGoal(st, goal) ==
  Assigned(Changed(st, [st.data EXCEPT !.goals = Put(@, goal.id, goal)]), goal)

\* storage.createPlan(goalId) on the state st, unless the handler has thrown
createPlan(st, goalId) ==
  IF st.err # "" THEN st
  ELSE Changed(st, [st.data EXCEPT !.plans =
                      Put(@, goalId, [goalId |-> goalId, todos |-> <<>>, updatedAt |-> now])])

\* storage.addTodo(goalId, fields) on the state st
addTodo(st, goalId, fields) ==
  IF ~HasPlan(st.data, goalId) THEN Raise(st, "PlanNotFound")
  ELSE Changed(st, [st.data EXCEPT !.plans[goalId] =
                      [@ EXCEPT !.todos =
                                  Append(@, [id |-> now, title |-> fields.title,
                                             description |-> fields.description,
                                             complexity |-> fields.complexity,
                                             codeExample |-> fields.codeExample,
                                             isComplete |-> FALSE, createdAt |-> now,
                                             updatedAt |-> now]),
                                !.updatedAt = now]])

\* The requests: the planning tools and set_working_directory; "resync" is the
\* block every planning handler starts with.
NoCall ==
  [name |-> "", planName |-> "", goal |-> "", directory |-> "", todo |-> <<>>]
Resync == [NoCall EXCEPT !.name = "resync", !.directory = processCwd]
ServerPlanNames == {"main", "feat", "a/b"}
ToolCalls ==
  {[NoCall EXCEPT !.name = "start_planning", !.goal = "build widget"]}
  \cup {[NoCall EXCEPT !.name = "create_new_plan", !.planName = planName, !.goal = goal] :
          planName \in ServerPlanNames, goal \in {"", "build widget"}}
  \cup {[NoCall EXCEPT !.name = "set_active_plan", !.planName = planName] :
          planName \in ServerPlanNames}
  \cup {[NoCall EXCEPT !.name = "set_working_directory", !.directory = directory] :
          directory \in DirectoryInputs}
  \cup {[NoCall EXCEPT !.name = "add_todo", !.todo = todo] : todo \in TodoInputs}

NewProject(st, call, F) ==
  call.name = "start_planning" /\ listPlans(st.self, st.fs, F) = <<>>

\* One request on the state st, in three parts: the storage calls before a
\* switch, the switch (assign, updatePaths(), initialize()), and what the
\* handler does after it.
Prepared(st, call, F) ==
  IF NewProject(st, call, F) THEN createNewPlan(st, "main", call.goal, F)
  ELSE IF call.name = "create_new_plan"
  THEN createNewPlan(st, call.planName, call.goal, {})
  ELSE st

\* The check storage.setWorkingDirectory / storage.setActivePlan makes before
\* it assigns: the error it throws, or "".
Refusal(st, before, call, F) ==
  IF call.name = "resync" /\ st.self.currentWorkingDirectory = processCwd THEN ""
  ELSE IF call.name \in {"resync", "set_working_directory"}
  THEN IF IsDir(before.fs, <<call.directory>>) THEN "" ELSE "InvalidDirectory"
  ELSE IF call.name = "set_active_plan"
  THEN IF sanitizePlanName(call.planName) # call.planName THEN "InvalidNamespaceName"
       ELSE IF ~InSeq(call.planName, listPlans(before.self, before.fs, {}))
       THEN "NamespaceNotFound" ELSE ""
  ELSE IF NewProject(st, call, F)
  THEN IF ~InSeq("main", listPlans(before.self, before.fs, {}))
       THEN "NamespaceNotFound" ELSE ""
  ELSE ""

\* The fields the request switches to: <<self>>, or <<>> when it does not switch.
Target(st, before, call, F) ==
  IF call.name = "resync" /\ st.self.currentWorkingDirectory = processCwd THEN <<>>
  ELSE IF call.name \in {"resync", "set_working_directory"}
  THEN <<updatePaths([before.self EXCEPT !.currentWorkingDirectory = call.directory])>>
  ELSE IF call.name = "set_active_plan"
  THEN <<updatePaths([before.self EXCEPT !.currentPlan = call.planName])>>
  ELSE IF NewProject(st, call, F)
  THEN <<updatePaths([before.self EXCEPT !.currentPlan = "main"])>>
  ELSE <<>>

\* The state after initialize() returned r under the fields self.
Loaded(before, self, r) ==
  [before EXCEPT !.self = self, !.fs = r.fs, !.data = r.data, !.err = r.err,
                 !.reload = TRUE,
                 !.mig = [r.mig EXCEPT !.again = r.mig.wd \in before.migrated],
                 !.migrated = IF r.mig.ok THEN @ \cup {r.mig.wd} ELSE @]

Switched(before, refused, target) ==
  IF before.err # "" THEN before
  ELSE IF refused # "" THEN Raise(before, refused)
  ELSE IF target = <<>> THEN before
  ELSE Loaded(before, target[1], initialize(target[1], before.fs, before.data, {}))

SwitchedFrom(st, before, call, F) ==
  Switched(before, Refusal(st, before, call, F), Target(st, before, call, F))

\* What the handler does after the switch; the re-sync swallows its error.
Finished(st, switched, call, F) ==
  IF call.name = "resync" THEN [switched EXCEPT !.err = ""]
  ELSE IF switched.err # "" THEN switched
  ELSE IF NewProject(st, call, F)
  THEN createPlan(createGoal(switched, [id |-> now, description |-> call.goal,
                                        createdAt |-> now]), now)
  ELSE IF call.name = "set_active_plan"
  THEN [switched EXCEPT !.goal = restoreCurrentGoal(switched.data)]
  ELSE IF call.name = "add_todo"
  THEN IF switched.goal = <<>> THEN Raise(switched, "NoActiveGoal")
       ELSE addTodo(switched, switched.goal[1].id, call.todo)
  ELSE switched

Handled(st, call, F) ==
  Finished(st, SwitchedFrom(st, Prepared(st, call, F), call, F), call, F)

\* The handler of a request: the re-sync first, except in set_working_directory.
RECURSIVE HandledAll(_, _, _)
HandledAll(st, calls, F) ==
  IF calls = <<>> THEN st
  ELSE HandledAll(Handled(st, Head(calls), F), Tail(calls), F)

Handler(call) ==
  IF call.name = "set_working_directory" THEN <<call>> ELSE <<Resync, call>>

\* A request served from start to end by the running server.
ToolCall(call) ==
  /\ phase = "running"
  /\ call.name \in {"set_active_plan", "set_working_directory"} => switchesLeft > 0
  /\ call.name \in {"create_new_plan", "add_todo"} => mutationsLeft > 0
  /\ \E F \in FaultSets(IF call.name = "start_planning" THEN PlanningPoints ELSE {},
                        faultsLeft) :
       \E st \in {HandledAll(ServerState, Handler(call), F)} :
         /\ \A g \in DOMAIN st.data.plans : Len(st.data.plans[g].todos) <= MaxTodos
         /\ SetSelf(st.self)
         /\ fs' = st.fs
         /\ data' = st.data
         /\ currentGoal' = st.goal
         /\ last' = [op |-> call.name, arg |-> "", err |-> st.err, reload |-> st.reload,
                     result |-> <<>>]
         /\ mig' = st.mig
         /\ migrated' = st.migrated
         /\ snap' = IF st.reload
                    THEN [wd |-> currentWorkingDirectory, plan |-> currentPlan, data |-> data]
                    ELSE snap
         /\ snapBefore' = IF st.reload THEN snap ELSE snapBefore
         /\ faultsLeft' = faultsLeft - Cardinality(F)
  /\ switchesLeft' = IF call.name \in {"set_active_plan", "set_working_directory"}
                     THEN switchesLeft - 1 ELSE switchesLeft
  /\ mutationsLeft' = IF call.name \in {"create_new_plan", "add_todo"}
                      THEN mutationsLeft - 1 ELSE mutationsLeft
  /\ UNCHANGED <<now, phase>>

\* The requests of a client of the running server.
NextServer ==
  \/ Startup
  \/ \E call \in ToolCalls : ToolCall(call)
  \/ Tick

MaxServerFaults == 2
MaxServerMutations == 2
MaxServerSwitches == 2
InitServer == InitWith(MaxServerFaults, MaxServerMutations, MaxServerSwitches)
\* SpecServer: the tool handlers of the server; the filesystem calls that may
\* fail are those of the start-up and of start_planning's plan check.
SpecServer == InitServer /\ [][NextServer]_vars

\* The calls of a client that meets a failure while it enters a directory and
\* goes on working there.
NextRecovery ==
  \/ Startup
  \/ \E directory \in WorkDirs : SetWorkingDirectory(directory)
  \/ \E description \in Descriptions : CreateGoal(description)
  \/ \E goalId \in GoalIdInputs : CreatePlan(goalId)
  \/ Tick

MaxRecoveryFaults == 1
MaxRecoveryMutations == 2
MaxRecoverySwitches == 2
InitRecovery == InitWith(MaxRecoveryFaults, MaxRecoveryMutations, MaxRecoverySwitches)
\* SpecRecovery: one filesystem call may fail, and the client may change
\* the directory again afterwards.
SpecRecovery == InitRecovery /\ [][NextRecovery]_vars


\* ================================================================ claims
\* The paths of one working directory's storage.
LegacyPath(wd, name) == PathJoin(BaseOf(wd), name)
BackupPath(wd, name) == PathJoin(PathJoin(BaseOf(wd), "v1-backup"), name)
MainPath(wd, name) == PathJoin(PathJoin(BaseOf(wd), "main"), name)
DerivedDocuments == {"plan.md", "tasks.md"}

\* File p of disk f holds content c.
Holds(f, p, c) == IsFile(f, p) /\ f.files[p] = c
\* Path p is the same on disks f and g: absent on both, or the same file.
SameAt(f, g, p) == (IsFile(f, p) <=> IsFile(g, p)) /\ (IsFile(f, p) => f.files[p] = g.files[p])
\* What disk f holds in and under directory dir.
Tree(f, dir) ==
  [dirs |-> {p \in f.dirs : IsPrefix(dir, p)},
   files |-> [p \in {q \in DOMAIN f.files : IsPrefix(dir, q)} |-> f.files[p]]]

\* The disk m.post is the legacy layout of m.pre: record and documents are at
\* the root again, and main holds no record the migration wrote.
FullyLegacy(m) ==
  /\ \A name \in FileNames :
       IsFile(m.pre, LegacyPath(m.wd, name)) =>
         Holds(m.post, LegacyPath(m.wd, name), m.pre.files[LegacyPath(m.wd, name)])
  /\ \/ ~IsFile(m.post, MainPath(m.wd, "data.json"))
     \/ SameAt(m.pre, m.post, MainPath(m.wd, "data.json"))

\* The disk m.post is the migrated layout: no record at the root, main holds it.
FullyMigrated(m) ==
  /\ ~IsFile(m.post, LegacyPath(m.wd, "data.json"))
  /\ Holds(m.post, MainPath(m.wd, "data.json"), m.pre.files[LegacyPath(m.wd, "data.json")])

\* C1: whenever the legacy migration run by initialize() fails, at whatever
\* step, the disk it leaves is fully legacy or fully migrated, never a mixture.
C1_FailedMigrationLeavesNoMixture ==
  (mig.ran /\ ~mig.ok) => (FullyLegacy(mig) \/ FullyMigrated(mig))

\* The record part of a successful migration: gone from the root, and in the
\* backup and in main with the content it had.
RecordMigrated(m) ==
  /\ ~IsFile(m.post, LegacyPath(m.wd, "data.json"))
  /\ Holds(m.post, BackupPath(m.wd, "data.json"), m.pre.files[LegacyPath(m.wd, "data.json")])
  /\ Holds(m.post, MainPath(m.wd, "data.json"), m.pre.files[LegacyPath(m.wd, "data.json")])

\* Document doc was moved: gone from the root, in the backup and in main.
DocumentMoved(m, doc) ==
  /\ ~IsFile(m.post, LegacyPath(m.wd, doc))
  /\ Holds(m.post, BackupPath(m.wd, doc), m.pre.files[LegacyPath(m.wd, doc)])
  /\ Holds(m.post, MainPath(m.wd, doc), m.pre.files[LegacyPath(m.wd, doc)])

\* Document doc was skipped: still at the root, the backup and main as before.
DocumentSkipped(m, doc) ==
  /\ Holds(m.post, LegacyPath(m.wd, doc), m.pre.files[LegacyPath(m.wd, doc)])
  /\ SameAt(m.pre, m.post, BackupPath(m.wd, doc))
  /\ SameAt(m.pre, m.post, MainPath(m.wd, doc))

Switches == {"setActivePlan", "setWorkingDirectory"}
Mutations == {"createGoal", "createPlan", "addTodo", "removeTodo", "updateTodoStatus"}

\* C4: after setActivePlan or setWorkingDirectory has reloaded, with or without
\* an error, the record in memory is empty or exactly the content of the
\* record file of the namespace now targeted.
C4_NoLeakageOnSwitch ==
  (last.reload /\ last.op \in Switches) =>
    \/ data = EmptyData
    \/ /\ IsFile(fs, storagePath)
       /\ Parseable(fs.files[storagePath])
       /\ data = Parse(fs.files[storagePath])

\* A switch to another namespace failed while the namespace it left had a
\* record with goals in memory.
C4_Witness ==
  /\ last.reload /\ last.op \in Switches /\ last.err # ""
  /\ snap.data # EmptyData
  /\ <<snap.wd, snap.plan>> # <<currentWorkingDirectory, currentPlan>>
  /\ data = EmptyData

\* C5: setActivePlan back to namespace A, after a switch from A to another
\* namespace B and calls made while B was active, loads the record A had when
\* it was left, and A's record file holds that record.
C5_SwitchRoundTrip ==
  ( /\ last.op = "setActivePlan" /\ last.reload /\ last.err = ""
    /\ snapBefore.wd = currentWorkingDirectory
    /\ snapBefore.plan = currentPlan
    /\ snap.wd = currentWorkingDirectory
    /\ snap.plan # currentPlan ) =>
    /\ SameRecord(data, snapBefore.data)
    /\ IsFile(fs, storagePath)
    /\ SameRecord(Parse(fs.files[storagePath]), snapBefore.data)

\* A came back after B's record was changed while B was active: B's record
\* differs from A's and has a goal.
C5_Witness ==
  /\ last.op = "setActivePlan" /\ last.reload /\ last.err = ""
  /\ snapBefore.wd = currentWorkingDirectory
  /\ snapBefore.plan = currentPlan
  /\ snap.wd = currentWorkingDirectory
  /\ snap.plan # currentPlan
  /\ snap.data.goals # EmptyFcn
  /\ ~SameRecord(snap.data, snapBefore.data)
  /\ IsFile(fs, PathJoin(PathJoin(baseStorageDir, snap.plan), "data.json"))
  /\ SameRecord(Parse(fs.files[PathJoin(PathJoin(baseStorageDir, snap.plan), "data.json")]),
                snap.data)

C7_MutationsPersisted ==
  (last.op \in Mutations /\ last.err = "") => Holds(fs, storagePath, JsonFile(data))

\* A todo was added and the call returned.
C7_Witness ==
  /\ last.op = "addTodo" /\ last.err = ""
  /\ \E g \in DOMAIN data.plans : Len(data.plans[g].todos) > 0

\* The names the claim calls unsafe: empty, holding "..", "/", "\" or NUL, or
\* not matching the safe-name pattern.
UnsafeNames ==
  {n \in PlanNameInputs :
     \/ n = ""
     \/ includes(n, <<".", ".">>) \/ includes(n, <<"/">>)
     \/ includes(n, <<"\\">>) \/ includes(n, <<"NUL">>)
     \/ ~validPlanRegex(n)}

\* C8: createNewPlan and setActivePlan with an unsafe name fail with
\* InvalidNamespaceName, create no directory or file, and leave the active
\* namespace and the record in memory unchanged.
C8_UnsafeNamesRejected ==
  [][\A n \in UnsafeNames :
       ( /\ last'.op \in {"setActivePlan", "createNewPlan"}
         /\ SetActivePlan(n) \/ \E goal \in GoalInputs : CreateNewPlan(n, goal) ) =>
         /\ last'.err = "InvalidNamespaceName"
         /\ UNCHANGED <<fs, data, currentWorkingDirectory, currentPlan, baseStorageDir,
                        cursorDir, storagePath, planPath, tasksPath>>]_vars

\* A call was rejected for its name.
C8_Witness == last.err = "InvalidNamespaceName" /\ last.op \in {"createNewPlan", "setActivePlan"}

WellFormedNames == {n \in PlanNameInputs : sanitizePlanName(n) = n}

\* C10: setActivePlan with a well-formed name that listPlans does not return
\* fails with NamespaceNotFound and leaves the active namespace, the paths, the
\* record in memory and the disk unchanged; with a listed name, when it
\* returns, the active namespace is that name and the record in memory is the
\* content of its record file, the legacy check having run for it.
C10_SetActivePlan ==
  [][\A n \in WellFormedNames :
       (last'.op = "setActivePlan" /\ SetActivePlan(n)) =>
         IF ~InSeq(n, listPlans(Self, fs, {}))
         THEN /\ last'.err = "NamespaceNotFound"
              /\ UNCHANGED <<fs, data, currentWorkingDirectory, currentPlan,
                             baseStorageDir, cursorDir, storagePath, planPath, tasksPath>>
         ELSE (last'.err = "") =>
                /\ currentPlan' = n
                /\ storagePath' = PathJoin(PathJoin(baseStorageDir, n), "data.json")
                /\ IsFile(fs', storagePath')
                /\ Parseable(fs'.files[storagePath'])
                /\ data' = Parse(fs'.files[storagePath'])
                /\ mig'.wd = currentWorkingDirectory /\ mig'.plan = n]_vars

\* setActivePlan selected a namespace other than main and loaded its goals.
C10_Witness ==
  /\ last.op = "setActivePlan" /\ last.err = "" /\ last.arg = "feat"
  /\ currentPlan = "feat"
  /\ data.goals # EmptyFcn

\* The record file createNewPlan is to write for goal: no goals and no plans
\* without a goal description, else exactly one goal with that description
\* and exactly one plan, empty and keyed by the goal's id.
InitialRecord(d, goal) ==
  IF goal \in {Undefined, ""}
  THEN d.goals = EmptyFcn /\ d.plans = EmptyFcn
  ELSE /\ Cardinality(DOMAIN d.goals) = 1
       /\ DOMAIN d.plans = DOMAIN d.goals
       /\ \A g \in DOMAIN d.goals :
            /\ d.goals[g].id = g
            /\ d.goals[g].description = goal
            /\ d.plans[g].goalId = g
            /\ d.plans[g].todos = <<>>

\* C11: createNewPlan fails with NamespaceAlreadyExists whenever the target
\* directory exists, and leaves the disk as it was; otherwise, when it
\* returns, the directory exists and its record file holds the initial record.
C11_CreateNewPlan ==
  [][\A n \in WellFormedNames : \A goal \in GoalInputs :
       (last'.op = "createNewPlan" /\ CreateNewPlan(n, goal)) =>
         IF IsDir(fs, PathJoin(baseStorageDir, n))
         THEN last'.err = "NamespaceAlreadyExists" /\ UNCHANGED fs
         ELSE (last'.err = "") =>
                /\ IsDir(fs', PathJoin(baseStorageDir, n))
                /\ IsFile(fs', PathJoin(PathJoin(baseStorageDir, n), "data.json"))
                /\ InitialRecord(
                     Parse(fs'.files[PathJoin(PathJoin(baseStorageDir, n), "data.json")]),
                     goal)]_vars

\* C12: a namespace whose creation succeeded is addressable: its name is in
\* listPlans(), and a setActivePlan of it that follows succeeds.
C12_CreatedIsAddressable ==
  [][(last.op = "createNewPlan" /\ last.err = "") =>
       /\ InSeq(last.arg, listPlans(Self, fs, {}))
       /\ (last'.op = "setActivePlan" /\ SetActivePlan(last.arg)) => last'.err = ""]_vars

\* name a comes before name b in the order of their characters' code units.
NameBefore(a, b) ==
  LET ca == Chars[a]
      cb == Chars[b]
      diff == {i \in 1..Len(ca) : i > Len(cb) \/ ca[i] # cb[i]}
  IN  IF diff = {} THEN Len(ca) < Len(cb)
      ELSE LET i == CHOOSE x \in diff : \A y \in diff : x <= y
           IN  i <= Len(cb) /\ CodeUnit(ca[i]) < CodeUnit(cb[i])

C16_WorkingDirectoryKept ==
  [][(last.op = "setWorkingDirectory" /\ last.err = "" /\ last'.op = "list_software_plans") =>
       /\ currentWorkingDirectory' = last.arg
       /\ UNCHANGED <<currentWorkingDirectory, baseStorageDir, cursorDir, storagePath,
                      planPath, tasksPath>>
       /\ last'.result = listPlans(Self, fs, {})]_vars

\* The record files on disk f.
RecordFiles(f) == {p \in DOMAIN f.files : p[Len(p)] = "data.json" /\ Parseable(f.files[p])}

\* C15: calls take effect one after the other, so a call made while another is
\* suspended never makes a record file lose a goal, a plan or a todo that
\* was persisted in it.
C15_NoLossByOverlap ==
  [][\A p \in RecordFiles(fs) \cap RecordFiles(fs') :
       LET before == Parse(fs.files[p])
           after == Parse(fs'.files[p])
       IN  /\ DOMAIN before.goals \subseteq DOMAIN after.goals
           /\ DOMAIN before.plans \subseteq DOMAIN after.plans
           /\ (last'.op \notin {"removeTodo", "createPlan"}) =>
                \A g \in DOMAIN before.plans :
                  Len(before.plans[g].todos) <= Len(after.plans[g].todos)]_vars

\* C17: setWorkingDirectory on a path that does not exist or is not a
\* directory fails with InvalidDirectory and leaves the working directory, the
\* active namespace, the paths, the record in memory and the disk unchanged.
C17_InvalidDirectoryChangesNothing ==
  [][\A directory \in DirectoryInputs :
       (~IsDir(fs, <<directory>>) /\ last'.op = "setWorkingDirectory"
          /\ SetWorkingDirectory(directory)) =>
         /\ last'.err = "InvalidDirectory"
         /\ UNCHANGED <<fs, data, currentWorkingDirectory, currentPlan, baseStorageDir,
                        cursorDir, storagePath, planPath, tasksPath>>]_vars

C17_Witness ==
  /\ last.op = "setWorkingDirectory"
  /\ last.err = "InvalidDirectory"
  /\ IsFile(fs, <<"notes.txt">>)
  /\ DOMAIN data.goals # {}

\* The ids of the todos of plan g of record d are pairwise different.
UniqueTodoIds(d, g) ==
  \A i, j \in 1..Len(d.plans[g].todos) :
    i # j => d.plans[g].todos[i].id # d.plans[g].todos[j].id

\* C18: in every reachable record no plan holds two todos with the same id,
\* addTodo calls within one clock tick included.
C18_TodoIdsUnique ==
  \A g \in DOMAIN data.plans : UniqueTodoIds(data, g)

\* C19: a successful createGoal adds exactly one goal under an id that was
\* not in use, and replaces no goal and no plan, also within one clock tick.
C19_CreateGoalAddsOne ==
  [][(last'.op = "createGoal" /\ last'.err = "") =>
       /\ Cardinality(DOMAIN data'.goals) = Cardinality(DOMAIN data.goals) + 1
       /\ \A g \in DOMAIN data.goals : g \in DOMAIN data'.goals /\ data'.goals[g] = data.goals[g]
       /\ data'.plans = data.plans]_vars

\* Every plan of record d is keyed by its goalId and that goal is in d.
Referential(d) ==
  \A g \in DOMAIN d.plans : g \in DOMAIN d.goals /\ d.plans[g].goalId = g

\* C20 as stated: in every reachable record each plan's goalId is its key and
\* names a goal of the record, whatever the engine calls were.
C20_PlansReferToGoals == Referential(data)

\* The record in memory and every record file on disk f are referential.
AllReferential(d, f) ==
  /\ Referential(d)
  /\ \A p \in RecordFiles(f) : Referential(Parse(f.files[p]))

\* C20: the same, for callers whose createPlan calls name goals that exist:
\* the record in memory and the record files are referential at the start,
\* and every call other than a createPlan on a missing goal keeps them so.
C20_PlansReferToGoalsOfCallers ==
  [][(AllReferential(data, fs)
        /\ ~(last'.op = "createPlan" /\ ~(DOMAIN data'.plans \subseteq DOMAIN data.goals))) =>
       AllReferential(data', fs')]_vars

C20_Witness ==
  /\ last.op = "createPlan"
  /\ last.err = ""
  /\ DOMAIN data.plans # {}
  /\ \E g \in DOMAIN data.plans : data.plans[g].todos = <<>>
  /\ Referential(data)

\* C21: addTodo(goalId, fields) fails with PlanNotFound and changes nothing
\* when goalId has no plan; otherwise the plan's todos afterwards are the
\* todos from before, in their order, followed by one new todo that carries
\* the given fields and isComplete = false.
C21_AddTodoAppends ==
  [][\A goalId \in GoalIdInputs : \A fields \in TodoInputs :
       (last'.op = "addTodo" /\ AddTodo(goalId, fields)) =>
         IF ~HasPlan(data, goalId)
         THEN last'.err = "PlanNotFound" /\ UNCHANGED <<data, fs>>
         ELSE LET before == data.plans[goalId].todos
                  after == data'.plans[goalId].todos
              IN  /\ last'.err # "PlanNotFound"
                  /\ Len(after) = Len(before) + 1
                  /\ SubSeq(after, 1, Len(before)) = before
                  /\ \A k \in DOMAIN fields : Field(after[Len(after)], k) = fields[k]
                  /\ after[Len(after)].isComplete = FALSE
                  /\ \A g \in DOMAIN data.plans \ {goalId} : data'.plans[g] = data.plans[g]
                  /\ data'.goals = data.goals]_vars

C21_Witness ==
  /\ last.op = "addTodo"
  /\ last.err = ""
  /\ \E g \in DOMAIN data.plans :
       /\ Len(data.plans[g].todos) >= 2
       /\ data.plans[g].todos[Len(data.plans[g].todos)].id = now
       /\ data.plans[g].todos[1].id # now

\* The positions of sequence todos whose todo does not have id todoId.
Kept(todos, todoId) == {i \in 1..Len(todos) : todos[i].id # todoId}

\* Sequence after is sequence before without the todos of id todoId, the
\* others in their order.
Without(after, before, todoId) ==
  /\ Len(after) = Cardinality(Kept(before, todoId))
  /\ \A i \in Kept(before, todoId) :
       after[Cardinality({k \in Kept(before, todoId) : k <= i})] = before[i]

C23_UpdateTodoStatus ==
  [][\A goalId \in GoalIdInputs : \A todoId \in TodoIdInputs : \A isComplete \in BOOLEAN :
       (last'.op = "updateTodoStatus" /\ UpdateTodoStatus(goalId, todoId, isComplete)) =>
         IF ~HasPlan(data, goalId)
         THEN last'.err = "PlanNotFound" /\ UNCHANGED <<data, fs>>
         ELSE IF Kept(data.plans[goalId].todos, todoId) = 1..Len(data.plans[goalId].todos)
         THEN last'.err = "TodoNotFound" /\ UNCHANGED <<data, fs>>
         ELSE LET before == data.plans[goalId].todos
                  after == data'.plans[goalId].todos
              IN  /\ last'.err \in {"", "IOFailure"}
                  /\ Len(after) = Len(before)
                  /\ \E i \in 1..Len(before) :
                       /\ before[i].id = todoId
                       /\ after[i].isComplete = isComplete
                       /\ \A k \in TodoFields \ {"isComplete", "updatedAt"} :
                            Field(after[i], k) = Field(before[i], k)
                       /\ \A j \in 1..Len(before) \ {i} : after[j] = before[j]
                       /\ last'.err = "" => last'.result = <<after[i]>>
                  /\ \A g \in DOMAIN data.plans \ {goalId} : data'.plans[g] = data.plans[g]
                  /\ data'.goals = data.goals]_vars

C23_Witness ==
  /\ last.op = "updateTodoStatus"
  /\ last.err = ""
  /\ Len(last.result) = 1
  /\ last.result[1].isComplete
  /\ \E g \in DOMAIN data.plans :
       \E i \in 1..Len(data.plans[g].todos) : data.plans[g].todos[i] = last.result[1]

\* C24: addTodo rejects a complexity outside 0..10, so every todo of every
\* reachable record has a complexity in 0..10.
C24_ComplexityInRange ==
  \A g \in DOMAIN data.plans :
    \A i \in 1..Len(data.plans[g].todos) : data.plans[g].todos[i].complexity \in 0..10

\* C25: removeTodo(goalId, todoId) on a plan that holds no todo of that id
\* succeeds and alters neither the plan's updatedAt nor anything else of the
\* record.
C25_RemoveAbsentKeepsRecord ==
  [][\A goalId \in GoalIdInputs : \A todoId \in TodoIdInputs :
       (/\ last'.op = "removeTodo"
        /\ HasPlan(data, goalId)
        /\ Kept(data.plans[goalId].todos, todoId) = 1..Len(data.plans[goalId].todos)
        /\ RemoveTodo(goalId, todoId)) =>
         /\ last'.err \in {"", "IOFailure"}
         /\ data' = data]_vars

\* The positions of document body whose line has tag t.
Tagged(body, t) == {i \in 1..Len(body) : body[i].tag = t}

\* C26: the task list document generated from a reachable record has at most
\* one pending section and at most one completed section, and every entry of
\* an incomplete todo comes before every entry of a complete todo.
C26_TasksDocumentSections ==
  LET body == generateTasksMarkdown(Self, Values(data.plans)).body
  IN  /\ Cardinality(Tagged(body, "pending-section")) <= 1
      /\ Cardinality(Tagged(body, "completed-section")) <= 1
      /\ \A i \in Tagged(body, "pending") : \A j \in Tagged(body, "completed") : i < j

\* A project without plans: the only namespace of the working directory is
\* the `main` the start-up made, it is active, and it holds no goal and no plan.
NoPlansYet ==
  /\ phase = "running"
  /\ currentPlan = "main"
  /\ listPlans(Self, fs, {}) = <<"main">>
  /\ data = EmptyData
  /\ Holds(fs, storagePath, JsonFile(EmptyData))
  /\ currentGoal = <<>>

StartPlanning ==
  \E call \in ToolCalls : call.name = "start_planning" /\ ToolCall(call)

\* C27: in a project without plans a start_planning request whose filesystem
\* calls all succeed leaves `main` active and a current goal that has a plan
\* in the record, so that add_todo can follow.
C27_StartPlanningStartsProject ==
  [][(NoPlansYet /\ StartPlanning /\ faultsLeft' = faultsLeft) =>
       /\ currentPlan' = "main"
       /\ currentGoal' # <<>>
       /\ HasPlan(data', currentGoal'[1].id)]_vars

\* C30: the dispatcher's current goal, when set, is a goal of the record in
\* memory, that is of the active namespace of the current working directory.
C30_CurrentGoalOfActiveRecord ==
  currentGoal # <<>> =>
    /\ currentGoal[1].id \in DOMAIN data.goals
    /\ data.goals[currentGoal[1].id] = currentGoal[1]

\* The record file of `main` under the base directory base holds a record
\* with goals or todos.
MainRecord(f, base) == PathJoin(PathJoin(base, "main"), "data.json")
MainHolds(f, base) ==
  /\ IsFile(f, MainRecord(f, base))
  /\ Parseable(f.files[MainRecord(f, base)])
  /\ LET d == Parse(f.files[MainRecord(f, base)])
     IN  DOMAIN d.goals # {} \/ \E g \in DOMAIN d.plans : d.plans[g].todos # <<>>

\* Every goal and every todo of record d is in record e.
KeptIn(d, e) ==
  /\ \A g \in DOMAIN d.goals : g \in DOMAIN e.goals /\ e.goals[g] = d.goals[g]
  /\ \A g \in DOMAIN d.plans :
       d.plans[g].todos # <<>> =>
         /\ g \in DOMAIN e.plans
         /\ \A i \in 1..Len(d.plans[g].todos) : InSeq(d.plans[g].todos[i], e.plans[g].todos)

\* C28: when initialize() runs where a legacy record lies at the namespace
\* root and `main` already holds goals or todos, the record file of `main`
\* still holds those goals and todos afterwards, whether the migration
\* succeeded or failed.
C28_MigrationKeepsMain ==
  [][(/\ last'.reload
      /\ IsFile(fs, PathJoin(baseStorageDir', "data.json"))
      /\ MainHolds(fs, baseStorageDir')) =>
        /\ IsFile(fs', MainRecord(fs', baseStorageDir'))
        /\ Parseable(fs'.files[MainRecord(fs', baseStorageDir')])
        /\ KeptIn(Parse(fs.files[MainRecord(fs, baseStorageDir')]),
                  Parse(fs'.files[MainRecord(fs', baseStorageDir')]))]_vars

\* C29: a createGoal, createPlan, addTodo, removeTodo or updateTodoStatus
\* whose save fails leaves the record in memory as it was before the call.
C29_FailedMutationHasNoEffect ==
  [][(last'.op \in Mutations /\ last'.err = "IOFailure") => data' = data]_vars


====
